---- MODULE Spec2Model ----
(***************************************************************************)
(* Model of the pension/insurance assistant: the corpus build script       *)
(* (bq_init.py: chunk_text, embed_in_batches, the BigQuery insert loop),   *)
(* the retrieval path (vertex_agent.py: retrieve_pension_chunks,           *)
(* get_cached_pension_chunks, classify_domain) and the Streamlit script    *)
(* (app.py: authentication block and chat loop).                           *)
(*                                                                         *)
(* Text is a sequence of one-character strings.  A Python list is a        *)
(* sequence and a dict is a function.                                      *)
(***************************************************************************)
EXTENDS Integers, Sequences, FiniteSets, TLC

VARIABLES
    chunkCall,   \* the last call of chunk_text: arguments and outcome
    embedCall,   \* the last call of embed_in_batches: arguments and outcome
    table,       \* the BigQuery table pension_chunks: rows in insertion order
    buildLog,    \* the last run of bq_init.py: how it ended, the rows it made
    retrCall,    \* the last call of retrieve_pension_chunks
    cache,       \* st.session_state.pension_chunks_cache (a dict), or NoCache
    firstSeen,   \* per cache key, the result of the first call that returned
    cacheCall,   \* the last call of get_cached_pension_chunks
    users,       \* the three CSV indexes: all users, pensions, insurance
    customer,    \* st.session_state.customer
    lastRun      \* what the last run of the app.py script did

vars == <<chunkCall, embedCall, table, buildLog, retrCall, cache, firstSeen,
          cacheCall, users, customer, lastRun>>

(***************************************************************************)
(* Bounds of the model.                                                    *)
(***************************************************************************)
MaxTextLen == 8      \* characters of a text given to chunk_text
MaxChunkSize == 4    \* largest chunk_size tried
MaxTexts == 3        \* texts given to embed_in_batches
MaxBatch == 3        \* largest batch_size tried
MaxRows == 2         \* rows of the table
MaxTopK == 3         \* largest top_k tried
MaxPages == 2        \* pages the build script reads

(***************************************************************************)
(* Defaults and constants of the code.                                     *)
(***************************************************************************)
DefaultChunkSize == 500
DefaultOverlap == 50
DefaultBatchSize == 20
BATCH_SIZE == 500
PensionTopK == 5

NoCall == [outcome |-> "none"]

Min(a, b) == IF a < b THEN a ELSE b
Max(a, b) == IF a > b THEN a ELSE b

SeqsUpTo(S, n) == UNION {[1..k -> S] : k \in 0..n}

(***************************************************************************)
(* Python string and list primitives used by the code.                     *)
(***************************************************************************)
\* Whitespace as str.split() and str.strip() see it.
IsSpace(c) == c \in {" ", "\n"}

\* str.split(): the maximal runs of non-whitespace characters, in order.
RECURSIVE SplitFrom(_, _, _, _)
SplitFrom(text, i, cur, acc) ==
    IF i > Len(text)
    THEN IF cur = <<>> THEN acc ELSE Append(acc, cur)
    ELSE IF IsSpace(text[i])
         THEN SplitFrom(text, i + 1, <<>>,
                        IF cur = <<>> THEN acc ELSE Append(acc, cur))
         ELSE SplitFrom(text, i + 1, Append(cur, text[i]), acc)

Split(text) == SplitFrom(text, 1, <<>>, <<>>)

\* " ".join(words)
RECURSIVE Join(_)
Join(words) ==
    IF words = <<>> THEN <<>>
    ELSE IF Len(words) = 1 THEN words[1]
    ELSE words[1] \o <<" ">> \o Join(Tail(words))

\* A slice bound as Python clamps it for a list of n items.
SliceIndex(k, n) == IF k < 0 THEN Max(k + n, 0) ELSE Min(k, n)

\* s[a:b] with 0-based, possibly negative or out-of-range bounds.
PySlice(s, a, b) ==
    LET lo == SliceIndex(a, Len(s))
        hi == SliceIndex(b, Len(s))
    IN  IF lo < hi THEN SubSeq(s, lo + 1, hi) ELSE <<>>

\* str.strip()
RECURSIVE LStrip(_)
LStrip(s) == IF s # <<>> /\ IsSpace(s[1]) THEN LStrip(Tail(s)) ELSE s

RECURSIVE RStrip(_)
RStrip(s) ==
    IF s # <<>> /\ IsSpace(s[Len(s)]) THEN RStrip(SubSeq(s, 1, Len(s) - 1)) ELSE s

Strip(s) == RStrip(LStrip(s))

\* str.lower()
LowerChar(c) == IF c = "A" THEN "a" ELSE c
Lower(s) == [i \in 1..Len(s) |-> LowerChar(s[i])]

\* str(n) for n >= 0: the decimal digits.
RECURSIVE Str(_)
Str(n) == IF n < 10 THEN <<n>> ELSE Str(n \div 10) \o <<n % 10>>

\* Order of two STRING ids (digit sequences): lexicographic.
RECURSIVE StrLess(_, _)
StrLess(a, b) ==
    IF b = <<>> THEN FALSE
    ELSE IF a = <<>> THEN TRUE
    ELSE IF a[1] # b[1] THEN a[1] < b[1]
    ELSE StrLess(Tail(a), Tail(b))

(***************************************************************************)
(* bq_init.py: chunk_text.                                                 *)
(***************************************************************************)
\* Variant of the loop that advances start one word too far.
RECURSIVE ChunkLoopStepOneMore(_, _, _, _, _)
ChunkLoopStepOneMore(words, chunk_size, overlap, start, chunks) ==
    IF ~(start < Len(words)) THEN chunks
    ELSE LET end == Min(start + chunk_size, Len(words))
             chunk == Join(PySlice(words, start, end))
         IN  ChunkLoopStepOneMore(words, chunk_size, overlap,
                     start + chunk_size - overlap + 1,
                     Append(chunks, [start |-> start, end |-> end, text |-> chunk]))

\* Variant of the loop that stops with the first window reaching the end of
\* the text.
RECURSIVE ChunkLoopStopsAtEnd(_, _, _, _, _)
ChunkLoopStopsAtEnd(words, chunk_size, overlap, start, chunks) ==
    IF ~(start < Len(words)) THEN chunks
    ELSE LET end == Min(start + chunk_size, Len(words))
             chunk == Join(PySlice(words, start, end))
             next == Append(chunks, [start |-> start, end |-> end, text |-> chunk])
         IN  IF end = Len(words) THEN next
             ELSE ChunkLoopStopsAtEnd(words, chunk_size, overlap,
                                      start + chunk_size - overlap, next)

\* The while loop of chunk_text.  A chunk is kept with the start and end the
\* code computed for it (the code appends the joined text only).
RECURSIVE ChunkLoop(_, _, _, _, _)
ChunkLoop(words, chunk_size, overlap, start, chunks) ==
    IF ~(start < Len(words)) THEN chunks
    ELSE LET end == Min(start + chunk_size, Len(words))
             chunk == Join(PySlice(words, start, end))
         IN  ChunkLoop(words, chunk_size, overlap, start + chunk_size - overlap,
                     Append(chunks, [start |-> start, end |-> end, text |-> chunk]))

\* chunk_text(text, chunk_size, overlap).  When the text has a word and
\* chunk_size - overlap <= 0, start never grows past 0, so the condition
\* start < len(words) stays true and the loop never exits.
ChunkText(text, chunk_size, overlap) ==
    LET words == Split(text)
    IN  IF Len(words) > 0 /\ chunk_size - overlap <= 0
        THEN [outcome |-> "diverges", chunks |-> <<>>]
        ELSE [outcome |-> "return",
              chunks |-> ChunkLoop(words, chunk_size, overlap, 0, <<>>)]

DocChars == {"a", " "}
DocTexts == SeqsUpTo(DocChars, MaxTextLen)

\* The pending call of chunk_text is made.
ChunkTextCall ==
    LET got == ChunkText(chunkCall.text, chunkCall.chunk_size, chunkCall.overlap)
    IN  /\ chunkCall.outcome = "pending"
        /\ chunkCall' = [chunkCall EXCEPT !.outcome = got.outcome,
                                          !.chunks = got.chunks]
        /\ UNCHANGED <<embedCall, table, buildLog, retrCall, cache, firstSeen,
                       cacheCall, users, customer, lastRun>>

(***************************************************************************)
(* The embedding service (TextEmbeddingModel.get_embeddings): one vector   *)
(* per text, in the order of the request.  The vector of a text stands for *)
(* its 768 numbers: the count of letters "a" and the count of the other    *)
(* characters.                                                             *)
(***************************************************************************)
CountOf(text, S) == Cardinality({i \in 1..Len(text) : text[i] \in S})

EmbeddingOf(text) == <<CountOf(text, {"a"}), CountOf(text, {"A", " ", "\n"})>>

GetEmbeddings(batch) == [i \in 1..Len(batch) |-> EmbeddingOf(batch[i])]

(***************************************************************************)
(* bq_init.py: embed_in_batches.                                           *)
(***************************************************************************)
\* Whether i is still in range(0, stop, step), for step # 0.
InRange(i, stop, step) == IF step > 0 THEN i < stop ELSE i > stop

\* Variant of the loop whose slice starts one text late.
RECURSIVE EmbedLoopSkipsFirst(_, _, _, _)
EmbedLoopSkipsFirst(texts, batch_size, i, all_embeddings) ==
    IF ~InRange(i, Len(texts), batch_size) THEN all_embeddings
    ELSE LET batch == PySlice(texts, i + 1, i + batch_size)
         IN  EmbedLoopSkipsFirst(texts, batch_size, i + batch_size,
                                 all_embeddings \o GetEmbeddings(batch))

\* The for loop of embed_in_batches.
RECURSIVE EmbedLoop(_, _, _, _)
EmbedLoop(texts, batch_size, i, all_embeddings) ==
    IF ~InRange(i, Len(texts), batch_size) THEN all_embeddings
    ELSE LET batch == PySlice(texts, i, i + batch_size)
         IN  EmbedLoop(texts, batch_size, i + batch_size,
                       all_embeddings \o GetEmbeddings(batch))

\* embed_in_batches(texts, batch_size).  range() raises ValueError for a zero
\* step; a failed request of the service raises out of the loop.
EmbedInBatches(texts, batch_size, svcOk) ==
    IF batch_size = 0
    THEN [outcome |-> "error", embeddings |-> <<>>]
    ELSE IF InRange(0, Len(texts), batch_size) /\ ~svcOk
    THEN [outcome |-> "error", embeddings |-> <<>>]
    ELSE [outcome |-> "return",
          embeddings |-> EmbedLoop(texts, batch_size, 0, <<>>)]

ChunkTexts == {<<"a">>, <<"a", "a">>, <<"a", " ", "a">>}

\* The pending call of embed_in_batches is made; the service answers or fails.
EmbedCall(svcOk) ==
    LET got == EmbedInBatches(embedCall.texts, embedCall.batch_size, svcOk)
    IN  /\ embedCall.outcome = "pending"
        /\ embedCall' = [embedCall EXCEPT !.outcome = got.outcome,
                                          !.embeddings = got.embeddings]
        /\ UNCHANGED <<chunkCall, table, buildLog, retrCall, cache, firstSeen,
                       cacheCall, users, customer, lastRun>>

(***************************************************************************)
(* bq_init.py: the script, from the page texts to the insert loop.         *)
(***************************************************************************)
\* "\n".join(texts)
RECURSIVE JoinLines(_)
JoinLines(texts) ==
    IF texts = <<>> THEN <<>>
    ELSE IF Len(texts) = 1 THEN texts[1]
    ELSE texts[1] \o <<"\n">> \o JoinLines(Tail(texts))

\* The texts list: the pages whose extracted text is not empty.
ExtractedTexts(pages) == SelectSeq(pages, LAMBDA t : t # <<>>)

\* rows_to_insert of the batch that starts at i.
RowsToInsert(chunks, embeddings, i) ==
    LET batch_embeddings == PySlice(embeddings, i, i + BATCH_SIZE)
        batch_chunks == PySlice(chunks, i, i + BATCH_SIZE)
    IN  [j1 \in 1..Len(batch_embeddings) |->
            [datapoint_id |-> Str(i + (j1 - 1)),
             chunk_text |-> batch_chunks[j1],
             embedding |-> batch_embeddings[j1]]]

\* The insert loop: insert_rows_json appends the batch to the table; a batch
\* whose request reports errors (i \in failed) is printed and left out.
RECURSIVE InsertLoop(_, _, _, _, _)
InsertLoop(chunks, embeddings, i, tbl, failed) ==
    IF ~InRange(i, Len(embeddings), BATCH_SIZE) THEN tbl
    ELSE InsertLoop(chunks, embeddings, i + BATCH_SIZE,
                    IF i \in failed THEN tbl
                    ELSE tbl \o RowsToInsert(chunks, embeddings, i),
                    failed)

\* The start indexes range(0, n, BATCH_SIZE).
BatchStarts(n) == {i \in 0..n : i % BATCH_SIZE = 0 /\ i < n}

\* The chunk texts the script computes from the pages.
ScriptChunks(pages) ==
    LET full_text == JoinLines(ExtractedTexts(pages))
        chunks == ChunkText(full_text, DefaultChunkSize, DefaultOverlap).chunks
    IN  [k \in 1..Len(chunks) |-> chunks[k].text]

\* One run of the script.  create_table(exists_ok=True) keeps an existing
\* table and its rows.  A failure of the embedding service ends the run before
\* the table is touched.
BuildRun(pages, svcOk, failed) ==
    LET chunks == ScriptChunks(pages)
        emb == EmbedInBatches(chunks, DefaultBatchSize, svcOk)
    IN  /\ failed \subseteq BatchStarts(Len(chunks))
        /\ IF emb.outcome = "error"
           THEN /\ table' = table
                /\ buildLog' = [outcome |-> "aborted", rows |-> <<>>]
           ELSE /\ table' = InsertLoop(chunks, emb.embeddings, 0, table, failed)
                /\ buildLog' = [outcome |-> IF failed = {} THEN "done" ELSE "errors",
                                rows |-> InsertLoop(chunks, emb.embeddings, 0, <<>>, {})]
        /\ Len(table') <= MaxRows
        /\ UNCHANGED <<chunkCall, embedCall, retrCall, cache, firstSeen,
                       cacheCall, users, customer, lastRun>>

PageTexts == {<<>>, <<"a">>, <<"a", " ", "a">>}

(***************************************************************************)
(* vertex_agent.py: retrieve_pension_chunks.                               *)
(***************************************************************************)
\* SUM(x*y) over the offsets the JOIN ... ON i=j pairs: those both arrays have.
RECURSIVE DotUpTo(_, _, _)
DotUpTo(x, y, n) == IF n = 0 THEN 0 ELSE DotUpTo(x, y, n - 1) + x[n] * y[n]

Similarity(embedding, query_embedding) ==
    DotUpTo(embedding, query_embedding, Min(Len(embedding), Len(query_embedding)))

Perms(n) == {p \in [1..n -> 1..n] : \A i, j \in 1..n : i # j => p[i] # p[j]}

\* ORDER BY similarity DESC: every order of the rows in which the similarity
\* never grows.  The statement names no second key, so BigQuery may give the
\* rows of equal similarity in any order.
RankedOrders(tbl, query_embedding) ==
    {p \in Perms(Len(tbl)) :
        \A i, j \in 1..Len(tbl) :
            i < j => Similarity(tbl[p[i]].embedding, query_embedding)
                        >= Similarity(tbl[p[j]].embedding, query_embedding)}

\* Variant of LIMIT that lets one more row through.
LimitOneMore(rows, top_k) == SubSeq(rows, 1, Min(top_k + 1, Len(rows)))

\* LIMIT top_k, for top_k >= 0.
Limit(rows, top_k) == SubSeq(rows, 1, Min(top_k, Len(rows)))

\* retrieve_pension_chunks(query, top_k), with the order p BigQuery gives.
\* The embedding request may fail; LIMIT with a negative count is rejected by
\* BigQuery.  order keeps which rows of the table were returned.
RetrievePensionChunks(tbl, query, top_k, svcOk, p) ==
    IF ~svcOk \/ top_k < 0
    THEN [outcome |-> "error", order |-> <<>>, result |-> <<>>]
    ELSE LET order == Limit(p, top_k)
         IN  [outcome |-> "return", order |-> order,
              result |-> [r \in 1..Len(order) |->
                             [datapoint_id |-> tbl[order[r]].datapoint_id,
                              chunk_text |-> tbl[order[r]].chunk_text]]]

\* Queries: texts whose embeddings differ, and texts that differ only by case
\* or by outer whitespace.
Queries == {<<"a">>, <<"A">>, <<" ", "a">>, <<"A", " ">>, <<"a", "A">>, <<"a", "a">>}

\* The pending call of retrieve_pension_chunks is made.
RetrieveCall(svcOk, p) ==
    LET got == RetrievePensionChunks(table, retrCall.query, retrCall.top_k, svcOk, p)
    IN  /\ retrCall.outcome = "pending"
        /\ p \in RankedOrders(table, EmbeddingOf(retrCall.query))
        /\ retrCall' = [retrCall EXCEPT !.outcome = got.outcome, !.order = got.order,
                                        !.result = got.result]
        /\ UNCHANGED <<chunkCall, embedCall, table, buildLog, cache, firstSeen,
                       cacheCall, users, customer, lastRun>>

(***************************************************************************)
(* vertex_agent.py: get_cached_pension_chunks.                             *)
(***************************************************************************)
NoCache == [init |-> FALSE, entries |-> <<>>]

\* Variant of the key that keeps the case of the query.
CacheKeyCaseSensitive(query) == Strip(query)

\* cache_key = query.lower().strip()
CacheKey(query) == Strip(Lower(query))

\* get_cached_pension_chunks(query, top_k) on the session's dict: the dict
\* after the call, the outcome, and whether the retriever was invoked.
CachedPensionChunks(entries, tbl, query, top_k, svcOk, p) ==
    LET cache_key == CacheKey(query)
        r == RetrievePensionChunks(tbl, query, top_k, svcOk, p)
    IN  IF cache_key \in DOMAIN entries
        THEN [entries |-> entries, outcome |-> "return",
              result |-> entries[cache_key], invoked |-> FALSE]
        ELSE IF r.outcome = "error"
        THEN [entries |-> entries, outcome |-> "error",
              result |-> <<>>, invoked |-> TRUE]
        ELSE [entries |-> [k \in DOMAIN entries \cup {cache_key} |->
                              IF k = cache_key THEN r.result ELSE entries[k]],
              outcome |-> "return", result |-> r.result, invoked |-> TRUE]

\* The lower-cased, trimmed text of a query.
NormalizedText(query) == Lower(Strip(query))

\* What firstSeen becomes when a call for query ends as got.
FirstSeenAfter(query, got) ==
    IF got.outcome = "return" /\ NormalizedText(query) \notin DOMAIN firstSeen
    THEN [k \in DOMAIN firstSeen \cup {NormalizedText(query)} |->
             IF k = NormalizedText(query) THEN got.result ELSE firstSeen[k]]
    ELSE firstSeen

CacheCall(query, top_k, svcOk, p) ==
    LET got == CachedPensionChunks(cache.entries, table, query, top_k, svcOk, p)
        seen == NormalizedText(query) \in DOMAIN firstSeen
    IN  /\ p \in RankedOrders(table, EmbeddingOf(query))
        /\ cache' = [init |-> TRUE, entries |-> got.entries]
        /\ cacheCall' = [top_k |-> top_k, outcome |-> got.outcome,
                         result |-> got.result, invoked |-> got.invoked,
                         normal |-> query = NormalizedText(query),
                         seenBefore |-> seen,
                         first |-> IF seen THEN firstSeen[NormalizedText(query)]
                                   ELSE <<>>]
        /\ firstSeen' = FirstSeenAfter(query, got)
        /\ UNCHANGED <<chunkCall, embedCall, table, buildLog, retrCall,
                       users, customer, lastRun>>

(***************************************************************************)
(* app.py: the session, the authentication block and the chat loop.        *)
(***************************************************************************)
NoCustomer == [present |-> FALSE, id |-> <<>>,
               has_pension |-> FALSE, has_insurance |-> FALSE]

\* A run of the script that got no input: the inputs are shown, nothing else.
NoRun == [kind |-> "start", domain |-> <<>>, generator |-> "none",
          cacheCalled |-> FALSE, invoked |-> FALSE, shown |-> "inputs"]

\* A new browser session: st.session_state starts empty, customer is None.
NewSession ==
    /\ customer' = NoCustomer
    /\ cache' = NoCache
    /\ firstSeen' = <<>>
    /\ lastRun' = NoRun
    /\ UNCHANGED <<chunkCall, embedCall, table, buildLog, retrCall,
                   cacheCall, users>>

\* A run of the script with a CustomerID typed in and nobody logged in yet.
\* The chat input of this run returns nothing, so the chat loop does nothing.
SubmitCustomerId(input) ==
    LET customer_id == Strip(input)
    IN  /\ ~customer.present
        /\ input # <<>>
        /\ IF customer_id \notin users.all
           THEN /\ customer' = customer
                /\ lastRun' = [kind |-> "login", shown |-> "not_found",
                               generator |-> "none", cacheCalled |-> FALSE,
                               invoked |-> FALSE, domain |-> <<>>]
           ELSE /\ customer' = [present |-> TRUE, id |-> customer_id,
                                has_pension |-> customer_id \in users.pensions,
                                has_insurance |-> customer_id \in users.insurance]
                /\ lastRun' = [kind |-> "login", shown |-> "greeting",
                               generator |-> "none", cacheCalled |-> FALSE,
                               invoked |-> FALSE, domain |-> <<>>]
        /\ UNCHANGED <<chunkCall, embedCall, table, buildLog, retrCall, cache,
                       firstSeen, cacheCall, users>>

ValidLabels == {<<"Pensions">>, <<"Insurance">>, <<"None">>}

\* classify_domain: the stripped text of the model's answer when it is one of
\* the three labels, "None" otherwise and when the request raises.
ClassifyDomain(response) ==
    IF response.ok
    THEN IF Strip(response.text) \in ValidLabels THEN Strip(response.text)
         ELSE <<"None">>
    ELSE <<"None">>

\* Variant of the routing that does not look at the customer's products.
RouteNoProductCheck(domain, cust) ==
    IF domain = <<"Pensions">> THEN "pension"
    ELSE IF domain = <<"Insurance">> THEN "insurance"
    ELSE "fallback"

\* The branch the chat loop takes for a classified domain and a customer.
Route(domain, cust) ==
    IF domain = <<"Pensions">>
    THEN IF ~cust.has_pension THEN "no_pension" ELSE "pension"
    ELSE IF domain = <<"Insurance">>
    THEN IF ~cust.has_insurance THEN "no_insurance" ELSE "insurance"
    ELSE "fallback"

\* A run of the script with a chat message typed in by a logged-in customer.
\* generate_pension_response asks the cache for the chunks (top_k=5) and then
\* the model for the answer; generate_response asks the model only.  Either
\* request may raise, which ends the run with the exception shown.
SubmitChat(prompt, response, svcOk, genOk, p) ==
    LET domain == ClassifyDomain(response)
        route == Route(domain, customer)
        got == CachedPensionChunks(cache.entries, table, prompt, PensionTopK, svcOk, p)
    IN  /\ customer.present
        /\ prompt # <<>>
        /\ p \in RankedOrders(table, EmbeddingOf(prompt))
        /\ IF route = "pension"
           THEN /\ cache' = [init |-> TRUE, entries |-> got.entries]
                /\ firstSeen' = FirstSeenAfter(prompt, got)
                /\ lastRun' = [kind |-> "chat", domain |-> domain,
                               generator |-> "pension",
                               cacheCalled |-> TRUE, invoked |-> got.invoked,
                               shown |-> IF got.outcome = "return" /\ genOk
                                         THEN "generated" ELSE "exception"]
           ELSE IF route = "insurance"
           THEN /\ UNCHANGED <<cache, firstSeen>>
                /\ lastRun' = [kind |-> "chat", domain |-> domain,
                               generator |-> "insurance",
                               cacheCalled |-> FALSE, invoked |-> FALSE,
                               shown |-> IF genOk THEN "generated" ELSE "exception"]
           ELSE /\ UNCHANGED <<cache, firstSeen>>
                /\ lastRun' = [kind |-> "chat", domain |-> domain,
                               generator |-> "none",
                               cacheCalled |-> FALSE, invoked |-> FALSE,
                               shown |-> route]
        /\ UNCHANGED <<chunkCall, embedCall, table, buildLog, retrCall,
                       cacheCall, users, customer>>

(***************************************************************************)
(* Specifications.  Each one starts from the state after construction of   *)
(* the parts it runs and applies their operations to inputs drawn from     *)
(* bounded sets; the other parts stay as they start.                       *)
(***************************************************************************)
NoUsers == [all |-> {}, pensions |-> {}, insurance |-> {}]

IdleCalls ==
    /\ chunkCall = NoCall
    /\ embedCall = NoCall
    /\ retrCall = NoCall
    /\ cacheCall = NoCall
    /\ buildLog = NoCall
    /\ lastRun = NoRun

IdleSession ==
    /\ cache = NoCache
    /\ firstSeen = <<>>
    /\ customer = NoCustomer

Idle == IdleCalls /\ IdleSession /\ table = <<>> /\ users = NoUsers

\* chunk_text on every text and every pair of sizes.
InitChunk ==
    /\ chunkCall \in [text : DocTexts, chunk_size : -1..MaxChunkSize,
                      overlap : -1..MaxChunkSize - 1, outcome : {"pending"},
                      chunks : {<<>>}]
    /\ embedCall = NoCall /\ retrCall = NoCall /\ cacheCall = NoCall
    /\ buildLog = NoCall /\ lastRun = NoRun
    /\ IdleSession /\ table = <<>> /\ users = NoUsers

NextChunk == ChunkTextCall

SpecChunk == InitChunk /\ [][NextChunk]_vars

\* embed_in_batches on every list of texts and every batch size.
InitEmbed ==
    /\ embedCall \in [texts : SeqsUpTo(ChunkTexts, MaxTexts), batch_size : -1..MaxBatch,
                      outcome : {"pending"}, embeddings : {<<>>}]
    /\ chunkCall = NoCall /\ retrCall = NoCall /\ cacheCall = NoCall
    /\ buildLog = NoCall /\ lastRun = NoRun
    /\ IdleSession /\ table = <<>> /\ users = NoUsers

NextEmbed == \E svcOk \in BOOLEAN : EmbedCall(svcOk)

SpecEmbed == InitEmbed /\ [][NextEmbed]_vars

\* The build script run again and again on the same table.
NextBuild ==
    \E pages \in SeqsUpTo(PageTexts, MaxPages), svcOk \in BOOLEAN, failed \in SUBSET {0} :
        BuildRun(pages, svcOk, failed)

SpecBuild == Idle /\ [][NextBuild]_vars

\* The tables a sequence of builds can leave: each build numbers its rows
\* from 0.  A stored embedding has one or two numbers.
StoredVectors == [1..1 -> 0..1] \cup [1..2 -> 0..1]

IdPatterns(n) ==
    {f \in [1..n -> 0..n] : \A i \in 1..n : f[i] = 0 \/ (i > 1 /\ f[i] = f[i - 1] + 1)}

Tables ==
    UNION {{[i \in 1..n |-> [datapoint_id |-> Str(f[i]), chunk_text |-> <<"a">>,
                              embedding |-> e[i]]] :
               f \in IdPatterns(n), e \in [1..n -> StoredVectors]} : n \in 0..MaxRows}

\* retrieve_pension_chunks on every table, query and top_k.
InitRetrieve ==
    /\ table \in Tables
    /\ retrCall \in [query : Queries, top_k : -1..MaxTopK, outcome : {"pending"},
                     order : {<<>>}, result : {<<>>}]
    /\ chunkCall = NoCall /\ embedCall = NoCall /\ cacheCall = NoCall
    /\ buildLog = NoCall /\ lastRun = NoRun
    /\ IdleSession /\ users = NoUsers

NextRetrieve == \E svcOk \in BOOLEAN, p \in Perms(Len(table)) : RetrieveCall(svcOk, p)

SpecRetrieve == InitRetrieve /\ [][NextRetrieve]_vars

\* A session calling the cache, with rebuilds of the table in between.
NextCache ==
    \/ \E query \in Queries, top_k \in -1..MaxTopK, svcOk \in BOOLEAN,
          p \in Perms(Len(table)) :
           CacheCall(query, top_k, svcOk, p)
    \/ BuildRun(<< <<"a">> >>, TRUE, {})
    \/ NewSession

SpecCache == Idle /\ [][NextCache]_vars

\* The app: sessions logging in and chatting over a table built before.
Prompts == {<<"a">>, <<"A">>, <<" ">>}
CustomerIds == {<<"1">>, <<"2">>}
IdInputs == SeqsUpTo({"1", "2", " "}, 2)
\* What the model answers to the classification prompt: a text, as words
\* and whitespace, or an exception.
ClassifierResponses ==
    {[ok |-> FALSE, text |-> <<>>]} \cup
    [ok : {TRUE},
     text : {<<"Pensions">>, <<"Insurance">>, <<"None">>, <<"pensions">>,
             <<" ", "Pensions", "\n">>, <<"Insurance", " ", "None">>, <<>>}]

InitApp ==
    /\ IdleCalls /\ IdleSession
    /\ table \in {t \in Tables : Len(t) <= 1}
    /\ users \in [all : SUBSET CustomerIds, pensions : SUBSET CustomerIds,
                  insurance : SUBSET CustomerIds]

NextApp ==
    \/ \E input \in IdInputs : SubmitCustomerId(input)
    \/ \E prompt \in Prompts, response \in ClassifierResponses,
          svcOk \in BOOLEAN, genOk \in BOOLEAN, p \in Perms(Len(table)) :
           SubmitChat(prompt, response, svcOk, genOk, p)
    \/ NewSession

SpecApp == InitApp /\ [][NextApp]_vars

Init == InitApp
Next == NextApp
Spec == SpecApp

\* The three functions, each called with a size that is not positive.
InitSizes ==
    /\ chunkCall \in [text : {<<>>, <<"a">>}, chunk_size : -1..0, overlap : -2..0,
                      outcome : {"pending"}, chunks : {<<>>}]
    /\ embedCall \in [texts : {<<>>, << <<"a">> >>}, batch_size : -1..0,
                      outcome : {"pending"}, embeddings : {<<>>}]
    /\ retrCall \in [query : {<<"a">>}, top_k : -1..0, outcome : {"pending"},
                     order : {<<>>}, result : {<<>>}]
    /\ table \in {t \in Tables : Len(t) <= 1}
    /\ cacheCall = NoCall /\ buildLog = NoCall /\ lastRun = NoRun
    /\ IdleSession /\ users = NoUsers

NextSizes == NextChunk \/ NextEmbed \/ NextRetrieve

SpecSizes == InitSizes /\ [][NextSizes]_vars

(***************************************************************************)
(* Properties.                                                             *)
(***************************************************************************)
Returned(call) == call.outcome = "return"
Ended(call) == call.outcome \notin {"none", "pending"}

\* The similarity of the row returned at place r of the last retrieval.
ReturnedSimilarity(r) ==
    Similarity(table[retrCall.order[r]].embedding, EmbeddingOf(retrCall.query))

\* Every stored embedding has as many numbers as the embedding of the query.
DimensionsAgree ==
    \A i \in 1..Len(table) :
        Len(table[i].embedding) = Len(EmbeddingOf(retrCall.query))

\* C1: retrieve returns the rows in descending order of dot-product
\* similarity, and of two returned rows of equal similarity the one with the
\* smaller datapoint_id comes first (here for a table whose embeddings have
\* the dimensionality of the query's).
C1_RankedWithTieBreak ==
    (Returned(retrCall) /\ DimensionsAgree) =>
        \A i, j \in 1..Len(retrCall.order) :
            i < j =>
                /\ ReturnedSimilarity(i) >= ReturnedSimilarity(j)
                /\ ReturnedSimilarity(i) = ReturnedSimilarity(j) =>
                       ~StrLess(retrCall.result[j].datapoint_id,
                                retrCall.result[i].datapoint_id)

\* C2: for top_k = k > 0 retrieve returns exactly min(k, rows of the table)
\* results, and never more than k.
C2_TopKBound ==
    (Returned(retrCall) /\ retrCall.top_k > 0) =>
        /\ Len(retrCall.result) = Min(retrCall.top_k, Len(table))
        /\ Len(retrCall.result) <= retrCall.top_k

\* A retrieval that cut the table down to top_k rows.
C2_Witness ==
    /\ Returned(retrCall)
    /\ retrCall.top_k > 0
    /\ retrCall.top_k < Len(table)
    /\ Len(retrCall.result) = retrCall.top_k

\* A call of chunk_text within its contract that returned.
ValidChunkCall ==
    /\ Returned(chunkCall)
    /\ chunkCall.chunk_size > 0
    /\ 0 <= chunkCall.overlap
    /\ chunkCall.overlap < chunkCall.chunk_size

NumWords == Len(Split(chunkCall.text))

\* The word positions (from 1) of chunk c.
Window(c) == (c.start + 1)..c.end

\* Chunk c is a contiguous window of the words of the text.
IsWindow(c) ==
    /\ 0 <= c.start /\ c.start < c.end /\ c.end <= NumWords
    /\ c.text = Join(SubSeq(Split(chunkCall.text), c.start + 1, c.end))

CoversAllWords ==
    /\ \A i \in 1..Len(chunkCall.chunks) : IsWindow(chunkCall.chunks[i])
    /\ UNION {Window(chunkCall.chunks[i]) : i \in 1..Len(chunkCall.chunks)} = 1..NumWords

\* The number of words chunks i and i+1 have in common.
Shared(i) ==
    Cardinality(Window(chunkCall.chunks[i]) \cap Window(chunkCall.chunks[i + 1]))

\* C3 as stated: the chunks are contiguous windows covering all N words, and
\* every pair of consecutive chunks shares exactly O words, except possibly
\* the pair that ends with the last chunk.
C3_OverlapExceptLastPair ==
    ValidChunkCall =>
        /\ CoversAllWords
        /\ \A i \in 1..Len(chunkCall.chunks) - 2 : Shared(i) = chunkCall.overlap

\* C3 as amended: the chunks are contiguous windows covering all N words;
\* a pair of consecutive chunks whose first chunk has the full chunk_size
\* words shares exactly O words, and a pair whose first chunk was cut at the
\* end of the text shares fewer than O words, namely all of the later chunk.
C3_OverlapAfterFullChunk ==
    ValidChunkCall =>
        /\ CoversAllWords
        /\ \A i \in 1..Len(chunkCall.chunks) - 1 :
              LET c == chunkCall.chunks[i]
                  d == chunkCall.chunks[i + 1]
              IN  IF c.end - c.start = chunkCall.chunk_size
                  THEN Shared(i) = chunkCall.overlap
                  ELSE /\ Shared(i) < chunkCall.overlap
                       /\ Window(d) \subseteq Window(c)

\* A call that gave three chunks or more with a positive overlap, the second
\* of them cut at the end of the text.
C3_Witness ==
    /\ ValidChunkCall
    /\ chunkCall.overlap > 0
    /\ Len(chunkCall.chunks) >= 3
    /\ chunkCall.chunks[2].end - chunkCall.chunks[2].start < chunkCall.chunk_size

CeilDiv(a, b) == (a + b - 1) \div b

\* C4 as stated: chunk_text returns ceil(max(N-O,0)/(C-O)) chunks.
C4_CountFromWordsLessOverlap ==
    ValidChunkCall =>
        Len(chunkCall.chunks) =
            CeilDiv(Max(NumWords - chunkCall.overlap, 0),
                    chunkCall.chunk_size - chunkCall.overlap)

\* C4 as amended: chunk_text returns ceil(N/(C-O)) chunks: one for every
\* start 0, C-O, 2(C-O), ... below N.
C4_CountFromWords ==
    ValidChunkCall =>
        Len(chunkCall.chunks) =
            CeilDiv(NumWords, chunkCall.chunk_size - chunkCall.overlap)

\* A call with a positive overlap on a text of more words than the overlap,
\* where the two counts differ.
C4_Witness ==
    /\ ValidChunkCall
    /\ chunkCall.overlap > 0
    /\ NumWords > chunkCall.overlap
    /\ Len(chunkCall.chunks) >
           CeilDiv(NumWords - chunkCall.overlap,
                   chunkCall.chunk_size - chunkCall.overlap)

\* C5: once a call of the cache for a query has returned in a session, every
\* later call of the session whose query has the same lower-cased, trimmed
\* text returns that first result and does not invoke the retriever, whatever
\* its top_k.
C5_CacheIdempotent ==
    (Ended(cacheCall) /\ cacheCall.seenBefore) =>
        /\ Returned(cacheCall)
        /\ cacheCall.result = cacheCall.first
        /\ ~cacheCall.invoked

\* A later call, written differently from its normalized text, that got the
\* first result although a new retrieval with its top_k would give another
\* number of rows.
C5_Witness ==
    /\ Ended(cacheCall)
    /\ cacheCall.seenBefore
    /\ ~cacheCall.normal
    /\ cacheCall.top_k > 0
    /\ cacheCall.result = cacheCall.first
    /\ Len(cacheCall.result) # Min(cacheCall.top_k, Len(table))

\* C6: for batch_size > 0 embed_in_batches returns as many vectors as it got
\* texts, vector i being the embedding of text i, whatever the batch size.
C6_OrderPreserved ==
    (Returned(embedCall) /\ embedCall.batch_size > 0) =>
        /\ Len(embedCall.embeddings) = Len(embedCall.texts)
        /\ \A i \in 1..Len(embedCall.texts) :
              embedCall.embeddings[i] = EmbeddingOf(embedCall.texts[i])

\* A call that needed more than one batch, the last one not full, for texts
\* with different embeddings.
C6_Witness ==
    /\ Returned(embedCall)
    /\ embedCall.batch_size > 0
    /\ Len(embedCall.texts) > embedCall.batch_size
    /\ Len(embedCall.texts) % embedCall.batch_size # 0
    /\ EmbeddingOf(embedCall.texts[1]) # EmbeddingOf(embedCall.texts[Len(embedCall.texts)])

\* C7: after a complete run of the build the table holds exactly the rows of
\* that run, so no two rows share a datapoint_id (and a second run on the
\* same documents leaves what the first left).
C7_TableIsLastBuild ==
    buildLog.outcome = "done" =>
        /\ table = buildLog.rows
        /\ \A i, j \in 1..Len(table) :
              i # j => table[i].datapoint_id # table[j].datapoint_id

\* C8: when a stored embedding and the query embedding differ in length,
\* retrieve (called with a top_k > 0) ends in an error; it returns no row
\* scored over a cut or padded vector.
C8_DimensionMismatchFails ==
    (Ended(retrCall) /\ retrCall.top_k > 0 /\ ~DimensionsAgree)
        => retrCall.outcome = "error"

\* C9: chunk_text with chunk_size <= 0, embed_in_batches with batch_size <= 0
\* and retrieve with top_k <= 0 each end in an error, not in a return and not
\* in a loop without end.
C9_NonPositiveSizeRejected ==
    /\ (Ended(chunkCall) /\ chunkCall.chunk_size <= 0) => chunkCall.outcome = "error"
    /\ (Ended(embedCall) /\ embedCall.batch_size <= 0) => embedCall.outcome = "error"
    /\ (Ended(retrCall) /\ retrCall.top_k <= 0) => retrCall.outcome = "error"

FixedMessages == {"no_pension", "no_insurance", "fallback"}

\* C10: the session customer comes from an ID of the all-users table, with
\* the product flags of that ID; a chat run calls generate_pension_response
\* (and the cache) only for domain Pensions and has_pension, generate_response
\* only for domain Insurance and has_insurance, and otherwise shows a fixed
\* message without any generator, cache or retriever call; the domain is
\* always one of the three labels.
C10_GeneratorsGated ==
    /\ customer.present =>
          /\ customer.id \in users.all
          /\ customer.has_pension = (customer.id \in users.pensions)
          /\ customer.has_insurance = (customer.id \in users.insurance)
    /\ lastRun.kind # "chat" =>
          /\ lastRun.generator = "none"
          /\ ~lastRun.cacheCalled /\ ~lastRun.invoked
    /\ lastRun.kind = "chat" =>
          /\ customer.present
          /\ lastRun.domain \in ValidLabels
          /\ lastRun.generator = "pension" <=>
                 (lastRun.domain = <<"Pensions">> /\ customer.has_pension)
          /\ lastRun.generator = "insurance" <=>
                 (lastRun.domain = <<"Insurance">> /\ customer.has_insurance)
          /\ (lastRun.cacheCalled \/ lastRun.invoked) => lastRun.generator = "pension"
          /\ lastRun.generator \notin {"pension", "insurance"} =>
                 /\ lastRun.shown \in FixedMessages
                 /\ ~lastRun.cacheCalled /\ ~lastRun.invoked

\* A customer without a pension whose question is classified Pensions and is
\* answered with the fixed message.
C10_Witness ==
    /\ lastRun.kind = "chat"
    /\ lastRun.domain = <<"Pensions">>
    /\ ~customer.has_pension
    /\ lastRun.shown = "no_pension"

====
